---- MODULE Spec2Model ----
\* Model of crates/eframe/src/web/text_agent.rs: the hidden <input> element
\* ("proxy control") that traps IME / virtual keyboard input for the canvas.
\*
\* One TextAgent slot (the runner owns at most one agent at a time), the DOM
\* side of its <input> element (parent, value, focus, left/top style), the
\* runner's input queue, and one record `last` holding the trace of platform
\* calls made by the most recent operation.
EXTENDS Integers, Sequences, FiniteSets, TLC

\* ---------------------------------------------------------------- bounds
MaxControls == 2      \* <input> elements ever created (attach calls)
MaxEvents == 3        \* length of runner.input.raw.events explored by SpecInput
MaxFocusEvents == 1   \* the same, for SpecFocus
MaxLifeEvents == 1    \* the same, for Spec
MaxTokens == 3        \* tokens of a user agent string explored by SpecAgent

\* ---------------------------------------------------------------- values
\* Option<T>: None is the empty tuple, Some(x) the one-element tuple.
None == <<>>
Some(x) == <<x>>

\* Strings the platform can put into the control or into event.data().
Texts == {"", "a", "ab"}
Payloads == {None} \cup {Some(t) : t \in Texts}

\* egui::Event values pushed by the handlers.
Text(t) == <<"Text", t>>
ImeEnabled == <<"ImeEnabled">>
ImePreedit(t) == <<"ImePreedit", t>>
ImeCommit(t) == <<"ImeCommit", t>>

\* Geometry: positions and rectangles in whole points.
Pos(x, y) == [x |-> x, y |-> y]
Rect(mn, mx) == [min |-> mn, max |-> mx]
CursorRects == {Rect(Pos(0, 0), Pos(2, 2)), Rect(Pos(1, 0), Pos(2, 4))}
IMEOutputs == {[cursor_rect |-> r] : r \in CursorRects}
ImeArgs == {None} \cup {Some(g) : g \in IMEOutputs}
CanvasOrigins == {Pos(0, 0), Pos(3, 1)}
OffsetTops == {5}
Zooms == {1, 2}

\* A CSS length as written by format!("{}px", v): the number, kept in half
\* points (n2 = 2 * v, so that the centre of a rectangle is exact), and its
\* unit. attach writes the unit-less "0".
Css(n2, unit) == [n2 |-> n2, unit |-> unit]
CssZero == Css(0, "")

\* User agent strings, as character sequences; None: the window or the
\* user agent cannot be read.
UA_Chrome == <<"C", "h", "r", "o", "m", "e">>
UA_iPhone == <<"i", "P", "h", "o", "n", "e">>
UA_iPad == <<"i", "P", "a", "d">>
UA_iPod == <<"i", "P", "o", "d">>
UA_Safari == <<"S", "a", "f", "a", "r", "i">>
UA_lower == <<"i", "p", "h", "o", "n", "e", " ", "s", "a", "f", "a", "r", "i">>
UserAgents ==
    {None, Some(UA_Chrome), Some(UA_iPhone), Some(UA_Safari),
     Some(UA_iPhone \o <<" ">> \o UA_Safari),
     Some(UA_Safari \o <<"/">> \o UA_iPad),
     Some(UA_iPod \o UA_Safari),
     Some(UA_Chrome \o <<" ">> \o UA_Safari),
     Some(UA_lower)}

\* The user agents move_to is run under.
MoveUserAgents == {None, Some(UA_Chrome), Some(UA_iPhone \o <<" ">> \o UA_Safari)}

\* str::contains
Contains(s, t) ==
    \E i \in 1..(Len(s) - Len(t) + 1) : SubSeq(s, i, i + Len(t) - 1) = t

\* Mutant of is_mobile_safari: one of the two kinds of token is enough.
is_mobile_safari_any(ua) ==
    IF ua = None THEN FALSE
    ELSE \/ Contains(ua[1], UA_iPhone)
         \/ Contains(ua[1], UA_iPad)
         \/ Contains(ua[1], UA_iPod)
         \/ Contains(ua[1], UA_Safari)

is_mobile_safari(ua) ==
    IF ua = None THEN FALSE
    ELSE LET user_agent == ua[1]
             is_ios == \/ Contains(user_agent, UA_iPhone)
                       \/ Contains(user_agent, UA_iPad)
                       \/ Contains(user_agent, UA_iPod)
             is_safari == Contains(user_agent, UA_Safari)
         IN is_ios /\ is_safari

\* is_mobile_safari, tabulated over the user agents of the model.
IsMobile == [ua \in UserAgents |-> is_mobile_safari(ua)]

\* ---------------------------------------------------------------- state
VARIABLES
    alive,            \* a TextAgent exists (attach returned Ok, not yet dropped)
    inputId,          \* the element the live agent owns (0: none)
    nextId,           \* next element identity create_element will hand out
    parent,           \* DOM: element -> "none" | "body" | "root"
    fate,             \* element -> "unused" | "agent" | "dropped" | "failed"
    value,            \* input.value() of the live agent's element
    focused,          \* the live agent's element is the document's active element
    left,             \* style "left" of the live agent's element
    top,              \* style "top" of the live agent's element
    prev_ime_output,  \* TextAgent.prev_ime_output
    events,           \* runner.input.raw.events
    needs_repaint,    \* runner.needs_repaint has been asked to repaint
    session,          \* history: the composition notifications of the current session
    last              \* the most recent operation: arguments, platform calls, result

vars == <<alive, inputId, nextId, parent, fate, value, focused, left, top,
          prev_ime_output, events, needs_repaint, session, last>>

Ids == 1..MaxControls

\* The record of an operation that made no call yet. `pre` is what the
\* operation found on entry: move_to the cached snapshot, the focus
\* operations the answer of has_focus(), drop the state of the agent.
Call(op) ==
    [op |-> op, composing |-> FALSE, payload |-> None, ime |-> None, on |-> FALSE,
     origin |-> Pos(0, 0), zoom |-> 1, mobile |-> FALSE, offset_top |-> 0,
     pre |-> None, rejected |-> {}, result |-> "Ok", calls |-> <<>>]

NoSession ==
    [open |-> FALSE, done |-> FALSE, pure |-> TRUE, base |-> 0, endLen |-> 0,
     updates |-> <<>>, commit |-> "", interleaved |-> FALSE]

Init ==
    /\ alive = FALSE
    /\ inputId = 0
    /\ nextId = 1
    /\ parent = [i \in Ids |-> "none"]
    /\ fate = [i \in Ids |-> "unused"]
    /\ value = ""
    /\ focused = FALSE
    /\ left = CssZero
    /\ top = CssZero
    /\ prev_ime_output = None
    /\ events = <<>>
    /\ needs_repaint = FALSE
    /\ session = NoSession
    /\ last = Call("init")

\* ---------------------------------------------------------------- attach
\* The fallible steps of TextAgent::attach, in program order.
AttachSteps ==
    <<"create_element", "dyn_into_html_element", "set_autofocus",
      "dyn_into_input_element", "set_attribute_autocapitalize",
      "style_background_color", "style_border", "style_outline", "style_width",
      "style_height", "style_caret_color", "style_position", "style_top",
      "style_left", "append_child",
      "listen_input", "listen_compositionstart", "listen_compositionupdate",
      "listen_compositionend", "listen_keydown", "listen_keyup">>

StepIndex(name) == CHOOSE i \in 1..Len(AttachSteps) : AttachSteps[i] = name

\* failAt = 0: no step is rejected; failAt = i: step i returns Err and the
\* `?` operator returns it from attach.
FailPoints == 0..Len(AttachSteps)

\* The steps attach executes (the rejected one included) before it returns.
StepsRun(failAt) ==
    IF failAt = 0 THEN AttachSteps ELSE SubSeq(AttachSteps, 1, failAt)

\* document.create_element returned an element.
attach_created(failAt) ==
    failAt = 0 \/ failAt > StepIndex("create_element")

\* append_child returned Ok: the element is a child of <body> or of root.
attach_inserted(failAt) ==
    failAt = 0 \/ failAt > StepIndex("append_child")

\* Where append_child puts the element.
attach_parent(rootIsDocument) == IF rootIsDocument THEN "body" ELSE "root"

attach(rootIsDocument, failAt, autofocused) ==
    /\ ~alive
    /\ nextId <= MaxControls
    /\ LET id == nextId
           ok == failAt = 0
       IN /\ nextId' = IF attach_created(failAt) THEN nextId + 1 ELSE nextId
          /\ parent' = IF attach_inserted(failAt)
                       THEN [parent EXCEPT ![id] = attach_parent(rootIsDocument)]
                       ELSE parent
          /\ fate' = IF ok THEN [fate EXCEPT ![id] = "agent"]
                     ELSE IF attach_created(failAt) THEN [fate EXCEPT ![id] = "failed"]
                     ELSE fate
          /\ alive' = ok
          /\ inputId' = IF ok THEN id ELSE 0
          /\ focused' = (ok /\ autofocused)
          /\ last' = [Call("attach") EXCEPT
                        !.result = IF ok THEN "Ok" ELSE "Err",
                        !.rejected = IF ok THEN {} ELSE {AttachSteps[failAt]},
                        !.calls = StepsRun(failAt)]
    /\ value' = ""
    /\ left' = CssZero
    /\ top' = CssZero
    /\ prev_ime_output' = None
    /\ session' = NoSession
    /\ UNCHANGED <<events, needs_repaint>>

\* ---------------------------------------------------------------- Drop
\* Mutant of drop_parent: the element stays where it is.
drop_parent_kept(p) == p

\* Element.remove(): the element has no parent afterwards.
drop_parent(p) == "none"

drop ==
    /\ alive
    /\ parent' = [parent EXCEPT ![inputId] = drop_parent(parent[inputId])]
    /\ fate' = [fate EXCEPT ![inputId] = "dropped"]
    /\ alive' = FALSE
    /\ inputId' = 0
    /\ value' = ""
    /\ focused' = FALSE
    /\ left' = CssZero
    /\ top' = CssZero
    /\ prev_ime_output' = None
    /\ session' = NoSession
    /\ last' = [Call("drop") EXCEPT
                  !.pre = [focused |-> focused, composing |-> session.open,
                           left |-> left, top |-> top],
                  !.calls = <<"remove">>]
    /\ UNCHANGED <<nextId, events, needs_repaint>>

\* ---------------------------------------------------------------- platform
\* The host writes text into the control (typing, IME, autocomplete).
platform_write(v) ==
    /\ alive
    /\ v # value
    /\ value' = v
    /\ last' = Call("platform_write")
    /\ UNCHANGED <<alive, inputId, nextId, parent, fate, focused, left, top,
                   prev_ime_output, events, needs_repaint, session>>

\* The host moves the focus to or away from the control (a click, a tab).
platform_focus(b) ==
    /\ alive
    /\ b # focused
    /\ focused' = b
    /\ last' = Call("platform_focus")
    /\ UNCHANGED <<alive, inputId, nextId, parent, fate, value, left, top,
                   prev_ime_output, events, needs_repaint, session>>

\* HtmlElement::focus() / blur() on the element: the focus state after the
\* call, which the host accepts (ok) or rejects.
platform_focus_call(ok, f) == IF ok THEN TRUE ELSE f
platform_blur_call(ok, f) == IF ok THEN FALSE ELSE f

\* Mutant of push: the event is put at the head of the queue.
push_front(queue, event) == <<event>> \o queue

\* runner.input.raw.events.push(event)
push(queue, event) == Append(queue, event)

\* Mutant of repaint_asap: the request is dropped.
repaint_asap_dropped(flag) == flag

\* runner.needs_repaint.repaint_asap()
repaint_asap(flag) == TRUE

\* The calls of `names` that the host rejected.
Rejected(names, oks) == {names[i] : i \in {j \in 1..Len(names) : ~oks[j]}}

\* ---------------------------------------------------------------- on_input
\* Mutant of on_input_refresh: the workaround is skipped on an empty buffer.
on_input_refresh_nonempty(text, isComposing) == ~isComposing /\ ~(text = "")

\* `if !event.is_composing()`: the blur / focus workaround runs.
on_input_refresh(text, isComposing) == ~isComposing

\* Mutant of on_input_emit: the composing flag is not consulted.
on_input_emit_any(text, isComposing) == ~(text = "")

\* `if !text.is_empty() && !event.is_composing()`: the text is forwarded.
on_input_emit(text, isComposing) == ~(text = "") /\ ~isComposing

\* Mutant of on_input_value: the buffer is left as it was read.
on_input_value_kept(text, isComposing) == text

\* input.set_value("") inside that branch.
on_input_value(text, isComposing) ==
    IF on_input_emit(text, isComposing) THEN "" ELSE text

on_input_event(text) == Text(text)

\* Mutant of on_input_refocus: focus is called before blur.
on_input_refocus_swapped(f, blurOk, focusOk) ==
    platform_blur_call(blurOk, platform_focus_call(focusOk, f))

\* input.blur().ok(); input.focus().ok();
on_input_refocus(f, blurOk, focusOk) ==
    platform_focus_call(focusOk, platform_blur_call(blurOk, f))

\* What the notification finds: the focus state, and the operation before it.
on_input_entry ==
    [focused |-> focused, after |-> last.op, on |-> last.on,
     payload |-> last.payload # None]

on_input(isComposing, blurOk, focusOk) ==
    /\ alive
    /\ LET text == value
           refresh == on_input_refresh(text, isComposing)
           emit == on_input_emit(text, isComposing)
       IN /\ focused' = IF refresh
                        THEN on_input_refocus(focused, blurOk, focusOk)
                        ELSE focused
          /\ value' = on_input_value(text, isComposing)
          /\ events' = IF emit THEN push(events, on_input_event(text)) ELSE events
          /\ needs_repaint' = IF emit THEN repaint_asap(needs_repaint) ELSE needs_repaint
          /\ last' = [Call("on_input") EXCEPT
                        !.composing = isComposing,
                        !.pre = on_input_entry,
                        !.rejected = IF refresh
                                     THEN Rejected(<<"blur", "focus">>, <<blurOk, focusOk>>)
                                     ELSE {},
                        !.calls = <<"value">>
                                  \o (IF refresh THEN <<"blur", "focus">> ELSE <<>>)
                                  \o (IF emit THEN <<"set_value", "push", "repaint_asap">>
                                      ELSE <<>>)]
    /\ session' = IF ~session.open THEN session
                  ELSE IF isComposing THEN [session EXCEPT !.interleaved = TRUE]
                  ELSE [session EXCEPT !.pure = FALSE]
    /\ UNCHANGED <<alive, inputId, nextId, parent, fate, left, top, prev_ime_output>>

\* ---------------------------------------------------------------- composition
\* Mutant of on_composition_start_value: the buffer is not cleared.
on_composition_start_value_kept(text) == text

on_composition_start_value(text) == ""

on_composition_start_event == ImeEnabled

on_composition_start ==
    /\ alive
    /\ value' = on_composition_start_value(value)
    /\ events' = push(events, on_composition_start_event)
    /\ needs_repaint' = repaint_asap(needs_repaint)
    /\ session' = [NoSession EXCEPT !.open = TRUE, !.base = Len(events)]
    /\ last' = [Call("on_composition_start") EXCEPT
                  !.calls = <<"set_value", "push", "repaint_asap">>]
    /\ UNCHANGED <<alive, inputId, nextId, parent, fate, focused, left, top,
                   prev_ime_output>>

\* `let Some(text) = event.data() else { return }`
on_composition_update_emit(data) == data # None

on_composition_update_event(text) == ImePreedit(text)

on_composition_update(data) ==
    /\ alive
    /\ LET emit == on_composition_update_emit(data)
       IN /\ events' = IF emit THEN push(events, on_composition_update_event(data[1]))
                       ELSE events
          /\ needs_repaint' = IF emit THEN repaint_asap(needs_repaint) ELSE needs_repaint
          /\ last' = [Call("on_composition_update") EXCEPT
                        !.payload = data,
                        !.calls = <<"data">>
                                  \o (IF emit THEN <<"push", "repaint_asap">> ELSE <<>>)]
    /\ session' = IF ~session.open THEN session
                  ELSE IF data = None THEN [session EXCEPT !.pure = FALSE]
                  ELSE [session EXCEPT !.updates = Append(@, data[1])]
    /\ UNCHANGED <<alive, inputId, nextId, parent, fate, value, focused, left, top,
                   prev_ime_output>>

on_composition_end_emit(data) == data # None

\* Mutant of on_composition_end_value: the buffer is cleared before the
\* payload is looked at.
on_composition_end_value_cleared(text, data) == ""

\* Mutant of on_composition_end_value: the buffer is never cleared.
on_composition_end_value_kept(text, data) == text

\* input.set_value("") after the `let Some(text) = event.data() else`.
on_composition_end_value(text, data) ==
    IF on_composition_end_emit(data) THEN "" ELSE text

on_composition_end_event(text) == ImeCommit(text)

on_composition_end(data) ==
    /\ alive
    /\ LET emit == on_composition_end_emit(data)
       IN /\ value' = on_composition_end_value(value, data)
          /\ events' = IF emit THEN push(events, on_composition_end_event(data[1]))
                       ELSE events
          /\ needs_repaint' = IF emit THEN repaint_asap(needs_repaint) ELSE needs_repaint
          /\ last' = [Call("on_composition_end") EXCEPT
                        !.payload = data,
                        !.calls = <<"data">>
                                  \o (IF emit THEN <<"set_value", "push", "repaint_asap">>
                                      ELSE <<>>)]
    /\ session' = IF ~session.open THEN session
                  ELSE IF data = None THEN [session EXCEPT !.pure = FALSE]
                  ELSE [session EXCEPT !.open = FALSE, !.done = TRUE,
                                       !.commit = data[1], !.endLen = Len(events')]
    /\ UNCHANGED <<alive, inputId, nextId, parent, fate, focused, left, top,
                   prev_ime_output>>

\* ---------------------------------------------------------------- move_to
\* Mutant of move_to_unchanged: only an unchanged None returns early.
move_to_unchanged_none(prev, ime) == prev = ime /\ ime = None

\* Mutant of move_to_cache: a None snapshot is not recorded.
move_to_cache_some(prev, ime) == IF ime = None THEN prev ELSE ime

\* `if self.prev_ime_output.get() == ime { return Ok(()) }`
move_to_unchanged(prev, ime) == prev = ime

\* `self.prev_ime_output.set(ime)`
move_to_cache(prev, ime) == ime

\* Mutant of move_to_cache_failed: the cache is set only once the writes succeeded.
move_to_cache_failed_kept(prev, ime) == prev

\* The cache after a rejected style write: it was set before the writes.
move_to_cache_failed(prev, ime) == move_to_cache(prev, ime)

\* Mutant of move_to_result: a rejected write of "top" is ignored.
move_to_result_left(leftOk, topOk) == IF leftOk THEN "Ok" ELSE "Err"

\* The `?` after each set_property, and the final Ok(()).
move_to_result(leftOk, topOk) == IF leftOk /\ topOk THEN "Ok" ELSE "Err"

\* canvas_rect.min, with the mobile Safari override of its y.
canvas_min(origin, offsetTop, mobile) ==
    IF mobile THEN Pos(origin.x, offsetTop) ELSE origin

\* Rect::translate
translate(rect, v) ==
    Rect(Pos(rect.min.x + v.x, rect.min.y + v.y),
         Pos(rect.max.x + v.x, rect.max.y + v.y))

\* Rect::center, doubled: (min + max) / 2 in half points.
center2(rect) == Pos(rect.min.x + rect.max.x, rect.min.y + rect.max.y)

\* format!("{}px", v) for v given in half points.
format_px(n2) == Css(n2, "px")

move_to_left(g, cmin, zoom) ==
    format_px(center2(translate(g.cursor_rect, cmin)).x * zoom)

move_to_top(g, cmin, zoom) ==
    format_px(center2(translate(g.cursor_rect, cmin)).y * zoom)

move_to(ime, origin, offsetTop, zoom, ua, leftOk, topOk) ==
    /\ alive
    /\ LET mobile == IsMobile[ua]
           cmin == canvas_min(origin, offsetTop, mobile)
           rec == [Call("move_to") EXCEPT
                     !.ime = ime, !.origin = origin, !.zoom = zoom,
                     !.mobile = mobile, !.pre = prev_ime_output,
                     !.offset_top = IF mobile THEN offsetTop ELSE 0]
       IN IF move_to_unchanged(prev_ime_output, ime)
          THEN /\ last' = rec
               /\ UNCHANGED <<prev_ime_output, left, top>>
          ELSE /\ prev_ime_output' = IF ime # None /\ ~(leftOk /\ topOk)
                                    THEN move_to_cache_failed(prev_ime_output, ime)
                                    ELSE move_to_cache(prev_ime_output, ime)
               /\ IF ime = None
                  THEN /\ last' = rec
                       /\ UNCHANGED <<left, top>>
                  ELSE IF ~leftOk
                  THEN /\ last' = [rec EXCEPT !.calls = <<"set_left">>,
                                              !.rejected = {"set_left"},
                                              !.result = move_to_result(leftOk, topOk)]
                       /\ UNCHANGED <<left, top>>
                  ELSE IF ~topOk
                  THEN /\ left' = move_to_left(ime[1], cmin, zoom)
                       /\ last' = [rec EXCEPT !.calls = <<"set_left", "set_top">>,
                                              !.rejected = {"set_top"},
                                              !.result = move_to_result(leftOk, topOk)]
                       /\ UNCHANGED top
                  ELSE /\ left' = move_to_left(ime[1], cmin, zoom)
                       /\ top' = move_to_top(ime[1], cmin, zoom)
                       /\ last' = [rec EXCEPT !.calls = <<"set_left", "set_top">>,
                                              !.result = move_to_result(leftOk, topOk)]
    /\ UNCHANGED <<alive, inputId, nextId, parent, fate, value, focused, events,
                   needs_repaint, session>>

\* ---------------------------------------------------------------- focus
has_focus == focused

\* Mutant of focus_needed: has_focus() is not consulted.
focus_needed_always(f) == TRUE

\* `if self.has_focus() { return; }`
focus_needed(f) == ~f

\* `if !self.has_focus() { return; }`
blur_needed(f) == f

\* Mutant of focus_log: a rejected focus() is swallowed without a log entry.
focus_log_silent(ok) == <<>>

\* `if let Err(err) = self.input.focus() { log::error!(..) }`
focus_log(ok) == IF ok THEN <<>> ELSE <<"log_error">>

\* `if let Err(err) = self.input.blur() { log::error!(..) }`
blur_log(ok) == IF ok THEN <<>> ELSE <<"log_error">>

focus_from(rec, ok) ==
    IF focus_needed(has_focus)
    THEN /\ focused' = platform_focus_call(ok, focused)
         /\ last' = [rec EXCEPT
                       !.pre = has_focus,
                       !.rejected = IF ok THEN {} ELSE {"focus"},
                       !.calls = <<"has_focus", "log_trace", "focus">> \o focus_log(ok)]
    ELSE /\ focused' = focused
         /\ last' = [rec EXCEPT !.pre = has_focus, !.calls = <<"has_focus">>]

blur_from(rec, ok) ==
    IF blur_needed(has_focus)
    THEN /\ focused' = platform_blur_call(ok, focused)
         /\ last' = [rec EXCEPT
                       !.pre = has_focus,
                       !.rejected = IF ok THEN {} ELSE {"blur"},
                       !.calls = <<"has_focus", "log_trace", "blur">> \o blur_log(ok)]
    ELSE /\ focused' = focused
         /\ last' = [rec EXCEPT !.pre = has_focus, !.calls = <<"has_focus">>]

focus(ok) ==
    /\ alive
    /\ focus_from(Call("focus"), ok)
    /\ UNCHANGED <<alive, inputId, nextId, parent, fate, value, left, top,
                   prev_ime_output, events, needs_repaint, session>>

blur(ok) ==
    /\ alive
    /\ blur_from(Call("blur"), ok)
    /\ UNCHANGED <<alive, inputId, nextId, parent, fate, value, left, top,
                   prev_ime_output, events, needs_repaint, session>>

set_focus(on, ok) ==
    /\ alive
    /\ IF on
       THEN focus_from([Call("set_focus") EXCEPT !.on = on], ok)
       ELSE blur_from([Call("set_focus") EXCEPT !.on = on], ok)
    /\ UNCHANGED <<alive, inputId, nextId, parent, fate, value, left, top,
                   prev_ime_output, events, needs_repaint, session>>

\* ---------------------------------------------------------------- specifications
\* The state right after TextAgent::attach returned Ok: the state a TextAgent
\* is constructed in.
InitAttached ==
    /\ alive = TRUE
    /\ inputId = 1
    /\ nextId = 2
    /\ \E rootIsDocument \in BOOLEAN :
          parent = [i \in Ids |-> IF i = 1 THEN attach_parent(rootIsDocument) ELSE "none"]
    /\ fate = [i \in Ids |-> IF i = 1 THEN "agent" ELSE "unused"]
    /\ value = ""
    /\ focused \in BOOLEAN
    /\ left = CssZero
    /\ top = CssZero
    /\ prev_ime_output = None
    /\ events = <<>>
    /\ needs_repaint = FALSE
    /\ session = NoSession
    /\ last = [Call("attach") EXCEPT !.calls = AttachSteps]

\* The host application's focus calls.
FocusCalls ==
    \/ \E on \in BOOLEAN, ok \in BOOLEAN : set_focus(on, ok)
    \/ \E ok \in BOOLEAN : focus(ok)
    \/ \E ok \in BOOLEAN : blur(ok)

\* The host application's positioning calls.
MoveCalls ==
    \E ime \in ImeArgs, origin \in CanvasOrigins, offsetTop \in OffsetTops,
       zoom \in Zooms, ua \in MoveUserAgents, leftOk \in BOOLEAN, topOk \in BOOLEAN :
       move_to(ime, origin, offsetTop, zoom, ua, leftOk, topOk)

\* One agent receiving text, through the four notifications the listeners
\* of attach receive: the composition state translator.
NextInput ==
    \/ \E v \in Texts : platform_write(v)
    \/ Len(events) < MaxEvents /\
         \E isComposing \in BOOLEAN, blurOk \in BOOLEAN, focusOk \in BOOLEAN :
            on_input(isComposing, blurOk, focusOk)
    \/ Len(events) < MaxEvents /\ on_composition_start
    \/ Len(events) < MaxEvents /\ \E data \in Payloads : on_composition_update(data)
    \/ Len(events) < MaxEvents /\ \E data \in Payloads : on_composition_end(data)

SpecInput == InitAttached /\ [][NextInput]_vars

\* One agent and its focus: the focus coordinator and the focus workaround
\* of on_input.
NextFocus ==
    \/ \E b \in BOOLEAN : platform_focus(b)
    \/ \E v \in Texts : platform_write(v)
    \/ FocusCalls
    \/ Len(events) < MaxFocusEvents /\
         \E isComposing \in BOOLEAN, blurOk \in BOOLEAN, focusOk \in BOOLEAN :
            on_input(isComposing, blurOk, focusOk)
    \/ \E ime \in ImeArgs : move_to(ime, Pos(0, 0), 0, 1, None, TRUE, TRUE)

SpecFocus == InitAttached /\ [][NextFocus]_vars

\* User agent strings made of up to MaxTokens tokens, written one after the
\* other; "safari" is the browser token in lower case.
UATokens == {"iPhone", "iPad", "iPod", "Safari", "Chrome", "safari"}

TokenChars(t) ==
    CASE t = "iPhone" -> UA_iPhone
      [] t = "iPad" -> UA_iPad
      [] t = "iPod" -> UA_iPod
      [] t = "Safari" -> UA_Safari
      [] t = "Chrome" -> UA_Chrome
      [] t = "safari" -> <<"s", "a", "f", "a", "r", "i">>

TokenLists == UNION {[1..n -> UATokens] : n \in 0..MaxTokens}

RECURSIVE UAString(_)
UAString(tokens) ==
    IF tokens = <<>> THEN <<>>
    ELSE TokenChars(Head(tokens)) \o UAString(Tail(tokens))

\* What navigator().user_agent() answers: nothing, or a string of tokens.
UAReads == {None} \cup {Some(tokens) : tokens \in TokenLists}

\* One evaluation of is_mobile_safari(), as move_to makes it; `pre` keeps the
\* tokens the user agent string was made of.
detect_mobile_safari(read) ==
    /\ alive
    /\ last' = [Call("is_mobile_safari") EXCEPT
                  !.pre = read,
                  !.mobile = is_mobile_safari(IF read = None THEN None
                                              ELSE Some(UAString(read[1])))]
    /\ UNCHANGED <<alive, inputId, nextId, parent, fate, value, focused, left, top,
                   prev_ime_output, events, needs_repaint, session>>

\* The platform detection alone, over the user agents.
NextAgent == \E read \in UAReads : detect_mobile_safari(read)

SpecAgent == InitAttached /\ [][NextAgent]_vars

\* One agent being positioned: the position synchronizer.
NextMove == MoveCalls

SpecMove == InitAttached /\ [][NextMove]_vars

\* The life cycle: agents attached and dropped one after the other, each
\* used in between (one canvas placement, a host that accepts focus calls).
Next ==
    \/ \E rootIsDocument \in BOOLEAN, failAt \in FailPoints, autofocused \in BOOLEAN :
          attach(rootIsDocument, failAt, autofocused)
    \/ drop
    \/ \E b \in BOOLEAN : platform_focus(b)
    \/ set_focus(TRUE, TRUE)
    \/ Len(events) < MaxLifeEvents /\ on_composition_start
    \/ \E ime \in ImeArgs, leftOk \in BOOLEAN, topOk \in BOOLEAN :
          move_to(ime, Pos(0, 0), 0, 1, None, leftOk, topOk)

Spec == Init /\ [][Next]_vars

\* ================================================================ claims
Range(seq) == {seq[i] : i \in 1..Len(seq)}

Count(name, calls) == Cardinality({i \in 1..Len(calls) : calls[i] = name})

\* ---------------------------------------------------------------- C1
\* C1: a plain-input notification that is not composing and finds a
\* non-empty buffer V appends exactly the one event Text(V) and leaves the
\* buffer empty, whatever came before.
C1_TextForwarded ==
    [][(last'.op = "on_input" /\ ~last'.composing /\ value # "")
         => (events' = Append(events, Text(value)) /\ value' = "")]_vars

\* A Text event was just forwarded from a non-empty buffer although no
\* composition session ever started.
C1_Witness ==
    /\ last.op = "on_input"
    /\ ~last.composing
    /\ Len(events) > 0
    /\ events[Len(events)] = Text("ab")
    /\ value = ""
    /\ ImeEnabled \notin Range(events)

\* ---------------------------------------------------------------- C2
\* C2: a plain-input notification whose composing flag is set appends no
\* event, leaves the buffer as it is, requests no repaint and makes no
\* focus or blur call, whatever the buffer holds.
C2_ComposingInputSuppressed ==
    [][(last'.op = "on_input" /\ last'.composing)
         => /\ events' = events
            /\ value' = value
            /\ needs_repaint' = needs_repaint
            /\ focused' = focused
            /\ Range(last'.calls) \cap {"push", "set_value", "repaint_asap", "focus", "blur"} = {}]_vars

\* A composing input notification arrived while the buffer held text.
C2_Witness ==
    /\ last.op = "on_input"
    /\ last.composing
    /\ value = "ab"
    /\ events = <<>>

\* ---------------------------------------------------------------- C3
\* The events the queue received since the start of the current session.
SessionEvents ==
    SubSeq(events, session.base + 1,
           IF session.done THEN session.endLen ELSE Len(events))

\* What the claim says a session of updates u1..un (and commit c) produces.
SessionExpected ==
    <<ImeEnabled>>
    \o [i \in 1..Len(session.updates) |-> ImePreedit(session.updates[i])]
    \o (IF session.done THEN <<ImeCommit(session.commit)>> ELSE <<>>)

\* C3: a session start, update(u1..un), end(c), with only composing input
\* notifications in between, appends exactly ImeEnabled, ImePreedit(u1), ...,
\* ImePreedit(un), ImeCommit(c) in that order (and the prefix of it while the
\* session is open); the buffer is empty right after start and right after end.
C3_SessionSequence ==
    /\ (session.pure /\ (session.open \/ session.done))
         => SessionEvents = SessionExpected
    /\ last.op = "on_composition_start" => value = ""
    /\ (last.op = "on_composition_end" /\ last.payload # None) => value = ""

\* A session with an update and a commit ended, a composing input
\* notification having arrived in between.
C3_Witness ==
    /\ session.done
    /\ session.pure
    /\ session.interleaved
    /\ session.updates = <<"a">>
    /\ session.commit = "ab"
    /\ last.op = "on_composition_end"

\* ---------------------------------------------------------------- C4
\* C4: no event of the queue is Text(""), ImePreedit("") or ImeCommit("").
C4_NoEmptyText ==
    \A i \in 1..Len(events) :
        events[i] \notin {Text(""), ImePreedit(""), ImeCommit("")}

\* ---------------------------------------------------------------- C5
\* C5: no element created by an attach call that returned failure is
\* attached to the document or to the root container.
C5_FailedAttachLeavesNothing ==
    \A i \in Ids : fate[i] = "failed" => parent[i] = "none"

\* ---------------------------------------------------------------- C6
\* C6: the element of every dropped agent has no parent, whatever state the
\* agent was dropped in.
C6_DroppedIsDetached ==
    \A i \in Ids : fate[i] = "dropped" => parent[i] = "none"

\* Two attach/drop cycles are over, the second agent having been dropped
\* focused, in the middle of a composition session and after a move_to whose
\* second style write was rejected.
C6_Witness ==
    /\ Cardinality({i \in Ids : fate[i] = "dropped"}) = 2
    /\ last.op = "drop"
    /\ last.pre.focused
    /\ last.pre.composing
    /\ last.pre.left # CssZero
    /\ last.pre.top = CssZero

\* ---------------------------------------------------------------- C7
\* The position the claim names: the centre of g.cursor_rect, translated by
\* the canvas origin and multiplied by zoom (in half points, as a px length).
ClaimedLeft(g, origin, zoom) ==
    Css((g.cursor_rect.min.x + g.cursor_rect.max.x + 2 * origin.x) * zoom, "px")

ClaimedTop(g, origin, zoom) ==
    Css((g.cursor_rect.min.y + g.cursor_rect.max.y + 2 * origin.y) * zoom, "px")

\* C7: after every move_to(Some(g), canvas, zoom) that returns Ok (not on
\* mobile Safari) left/top are the position computed from g and from the
\* canvas origin and zoom of that call.
C7_PositionFollowsCall ==
    (last.op = "move_to" /\ last.ime # None /\ last.result = "Ok" /\ ~last.mobile)
      => /\ left = ClaimedLeft(last.ime[1], last.origin, last.zoom)
         /\ top = ClaimedTop(last.ime[1], last.origin, last.zoom)

\* ---------------------------------------------------------------- C8
\* C8: a move_to whose snapshot equals the cached one returns Ok, makes no
\* style write and leaves the cache (and left/top) as they were; a freshly
\* attached agent caches None.
C8_EqualSnapshotNoWrite ==
    /\ []((last.op = "attach" /\ last.result = "Ok") => prev_ime_output = None)
    /\ [][(last'.op = "move_to" /\ last'.ime = prev_ime_output)
            => /\ last'.result = "Ok"
               /\ last'.calls = <<>>
               /\ prev_ime_output' = prev_ime_output
               /\ left' = left
               /\ top' = top]_vars

\* A move_to found the snapshot it was given, a Some value, in the cache and
\* wrote nothing.
C8_Witness ==
    /\ last.op = "move_to"
    /\ last.ime # None
    /\ last.ime = last.pre
    /\ last.calls = <<>>
    /\ left.unit = "px"

\* ---------------------------------------------------------------- C9
\* C9: move_to(None) on a cache of Some(g) sets the cache to None, writes no
\* style and returns Ok; a move_to(Some(g)) with the same g right after it is
\* a change: it issues the style writes, and where the host accepts them the
\* position is written again.
C9_NoneIsRecordedNotWritten ==
    /\ [][(last'.op = "move_to" /\ last'.ime = None /\ prev_ime_output # None)
            => /\ prev_ime_output' = None
               /\ last'.calls = <<>>
               /\ last'.result = "Ok"
               /\ left' = left
               /\ top' = top]_vars
    /\ [][(/\ last.op = "move_to" /\ last.ime = None /\ last.pre # None
           /\ last'.op = "move_to" /\ last'.ime = last.pre)
            => /\ last'.calls # <<>>
               /\ Head(last'.calls) = "set_left"
               /\ prev_ime_output' = last'.ime
               /\ (last'.rejected = {} /\ ~last'.mobile)
                    => /\ Count("set_top", last'.calls) = 1
                       /\ left' = ClaimedLeft(last'.ime[1], last'.origin, last'.zoom)
                       /\ top' = ClaimedTop(last'.ime[1], last'.origin, last'.zoom)]_vars

\* move_to(None) has just cleared a cache of Some(g), the position written
\* for g still in place.
C9_Witness ==
    /\ last.op = "move_to"
    /\ last.ime = None
    /\ last.pre # None
    /\ prev_ime_output = None
    /\ last.calls = <<>>
    /\ left.unit = "px"
    /\ top.unit = "px"

\* ---------------------------------------------------------------- C10
\* The platform focus / blur calls of a set_focus.
C10_Counts ==
    last.op = "set_focus"
      => /\ Count("focus", last.calls) = IF last.on /\ ~last.pre THEN 1 ELSE 0
         /\ Count("blur", last.calls) = IF ~last.on /\ last.pre THEN 1 ELSE 0

C11_RejectedFocusSwallowed ==
    [][(last'.op \in {"set_focus", "focus", "blur"} /\ last'.rejected # {})
         => /\ last'.result = "Ok"
            /\ Count("log_error", last'.calls) = 1
            /\ Count("focus", last'.calls) + Count("blur", last'.calls) = 1
            /\ value' = value
            /\ events' = events
            /\ prev_ime_output' = prev_ime_output]_vars

\* set_focus(true) was rejected by the host on an agent that holds text, a
\* queued event and a cached snapshot.
C11_Witness ==
    /\ last.op = "set_focus"
    /\ last.on
    /\ last.rejected = {"focus"}
    /\ last.calls = <<"has_focus", "log_trace", "focus", "log_error">>
    /\ value = "ab"
    /\ events # <<>>
    /\ prev_ime_output # None
    /\ ~focused

\* ---------------------------------------------------------------- C12
\* The kind of event each notification may append.
EventKindOf(op) ==
    CASE op = "on_input" -> "Text"
      [] op = "on_composition_start" -> "ImeEnabled"
      [] op = "on_composition_update" -> "ImePreedit"
      [] op = "on_composition_end" -> "ImeCommit"
      [] OTHER -> "none"

\* C12: every notification leaves the queue as it was or appends one event
\* at its tail (the event of that notification), so the queue grows by 0 or
\* 1 per notification and holds the events in arrival order.
C12_AtMostOneEventInOrder ==
    [][\/ events' = events
       \/ /\ Len(events') = Len(events) + 1
          /\ SubSeq(events', 1, Len(events)) = events
          /\ events'[Len(events')][1] = EventKindOf(last'.op)]_vars

\* Three notifications of three kinds have each appended their event, in the
\* order they arrived.
C12_Witness ==
    /\ Len(events) = 3
    /\ events[1] = Text("a")
    /\ events[2] = ImeEnabled
    /\ events[3] = ImePreedit("ab")
    /\ last.op = "on_composition_update"

\* ---------------------------------------------------------------- C13
\* C13: a notification that appends an event asks for a repaint in the same
\* handler invocation, once.
C13_EventRequestsRepaint ==
    [][events' # events
         => /\ needs_repaint'
            /\ Count("repaint_asap", last'.calls) = 1
            /\ Count("push", last'.calls) = 1]_vars

\* The first event of the queue was appended and the repaint requested by
\* the same composition-update notification.
C13_Witness ==
    /\ Len(events) = 1
    /\ last.op = "on_composition_update"
    /\ last.calls = <<"data", "push", "repaint_asap">>
    /\ needs_repaint

\* ---------------------------------------------------------------- C14
\* C14: a move_to whose write of "left" or of "top" is rejected returns the
\* failure to its caller.
C14_RejectedWriteIsReturned ==
    (last.op = "move_to" /\ last.rejected # {}) => last.result = "Err"

\* The write of "top" was rejected after the write of "left" went through,
\* and move_to returned Err.
C14_Witness ==
    /\ last.op = "move_to"
    /\ last.rejected = {"set_top"}
    /\ last.calls = <<"set_left", "set_top">>
    /\ last.result = "Err"
    /\ left.unit = "px"

\* ---------------------------------------------------------------- C15
DeviceTokens == {"iPhone", "iPad", "iPod"}

\* C15: the predicate is true exactly when the user agent holds a device
\* token (iPhone, iPad, iPod) and the token Safari; it is false when the user
\* agent cannot be read.
C15_MobileSafariPredicate ==
    last.op = "is_mobile_safari"
      => last.mobile = (/\ last.pre # None
                        /\ Range(last.pre[1]) \cap DeviceTokens # {}
                        /\ "Safari" \in Range(last.pre[1]))

\* A user agent holding iPad and Safari among other text is a match.
C15_Witness ==
    /\ last.op = "is_mobile_safari"
    /\ last.pre = Some(<<"Chrome", "iPad", "Safari">>)
    /\ last.mobile

\* ---------------------------------------------------------------- C16
\* C16: a composition-update or composition-end notification without a
\* payload does nothing: no event, no repaint request, and the buffer is
\* left as it is, after the payload has been asked for.
C16_NoPayloadIsNoOp ==
    [][(last'.op \in {"on_composition_update", "on_composition_end"}
          /\ last'.payload = None)
         => /\ events' = events
            /\ value' = value
            /\ needs_repaint' = needs_repaint
            /\ last'.calls = <<"data">>]_vars

\* A composition-end without payload, inside a session, over a buffer that
\* holds text.
C16_Witness ==
    /\ last.op = "on_composition_end"
    /\ last.payload = None
    /\ session.open
    /\ value = "ab"
    /\ events = <<ImeEnabled>>

\* ---------------------------------------------------------------- C17
WorkaroundCalls == {"blur", "focus"}

\* C17: every non-composing input runs blur then focus right after the
\* buffer is read, whatever the buffer holds and whatever the host answers,
\* without asking has_focus and without logging; the buffer is cleared only
\* after them. Composing inputs and composition notifications never do.
C17_RefreshOnEveryInput ==
    [][/\ (last'.op = "on_input" /\ ~last'.composing)
           => /\ last'.calls = <<"value", "blur", "focus">>
                                \o (IF value = "" THEN <<>>
                                    ELSE <<"set_value", "push", "repaint_asap">>)
              /\ last'.result = "Ok"
       /\ (\/ last'.op = "on_input" /\ last'.composing
           \/ last'.op \in {"on_composition_start", "on_composition_update",
                            "on_composition_end"})
           => Range(last'.calls) \cap WorkaroundCalls = {}]_vars

\* A non-composing input over an empty buffer, both calls rejected.
C17_Witness ==
    /\ last.op = "on_input"
    /\ ~last.composing
    /\ last.rejected = {"blur", "focus"}
    /\ last.calls = <<"value", "blur", "focus">>
    /\ value = ""
    /\ events = <<>>

\* ---------------------------------------------------------------- C18
\* C18: the cache is set before the style writes, so a move_to(Some(g)) whose
\* write is rejected leaves the cache at Some(g): a rejected "left" leaves
\* both properties as they were, a rejected "top" leaves "top" as it was
\* next to the new "left", and the same call made again returns Ok without
\* a style write, the position staying where the failed call left it.
C18_CacheSetBeforeWrites ==
    /\ []((last.op = "move_to" /\ last.result = "Err")
            => /\ last.ime # None
               /\ prev_ime_output = last.ime)
    /\ [][(last'.op = "move_to" /\ last'.rejected = {"set_left"})
            => /\ last'.calls = <<"set_left">>
               /\ left' = left
               /\ top' = top]_vars
    /\ [][(last'.op = "move_to" /\ last'.rejected = {"set_top"})
            => /\ last'.calls = <<"set_left", "set_top">>
               /\ top' = top]_vars
    /\ [][(/\ last.op = "move_to" /\ last.result = "Err"
           /\ last'.op = "move_to" /\ last'.ime = last.ime)
            => /\ last'.result = "Ok"
               /\ last'.calls = <<>>
               /\ left' = left
               /\ top' = top]_vars

\* The repeat of a call whose write of "top" was rejected on a fresh agent:
\* it found its snapshot cached and wrote nothing, "left" is set and "top"
\* is still the value attach gave it.
C18_Witness ==
    /\ last.op = "move_to"
    /\ last.ime # None
    /\ last.pre = last.ime
    /\ last.result = "Ok"
    /\ last.calls = <<>>
    /\ left.unit = "px"
    /\ top = CssZero

\* ---------------------------------------------------------------- C19
\* C19: a non-composing input whose focus call the host accepts leaves the
\* control focused, whatever the focus state was before; so an input that
\* follows set_focus(false) puts the focus back.
C19_InputTakesFocus ==
    /\ []((last.op = "on_input" /\ ~last.composing /\ "focus" \notin last.rejected)
            => focused)
    /\ [][(/\ last.op = "set_focus" /\ ~last.on /\ ~focused
           /\ last'.op = "on_input" /\ ~last'.composing
           /\ "focus" \notin last'.rejected)
            => focused']_vars

\* The input came right after a set_focus(false) that had blurred the
\* control, and the control is focused again.
C19_Witness ==
    /\ last.op = "on_input"
    /\ ~last.composing
    /\ last.rejected = {}
    /\ last.pre.after = "set_focus"
    /\ ~last.pre.on
    /\ ~last.pre.focused
    /\ focused

\* ---------------------------------------------------------------- C20
\* C20: a composition-end with a payload leaves the buffer empty, so the
\* non-composing input that follows it, with no write of the platform in
\* between, finds nothing to forward: the committed text is in the queue
\* once, as the commit event.
C20_CommitNotRepeated ==
    /\ []((last.op = "on_composition_end" /\ last.payload # None) => value = "")
    /\ [][(/\ last.op = "on_composition_end" /\ last.payload # None
           /\ last'.op = "on_input" /\ ~last'.composing)
            => /\ events' = events
               /\ value' = ""
               /\ last'.calls = <<"value", "blur", "focus">>]_vars

\* The input right after the commit of "ab": the commit event is still the
\* last of the queue.
C20_Witness ==
    /\ last.op = "on_input"
    /\ ~last.composing
    /\ last.pre.after = "on_composition_end"
    /\ last.pre.payload
    /\ events = <<ImeEnabled, ImeCommit("ab")>>
    /\ value = ""

====
